---- MODULE Spec2Model ----
(***************************************************************************)
(* Model of the ROFL x402 document summarization service:                  *)
(*   - app/main.py     the job table, POST /summarize-doc, the background  *)
(*                     summarization task, GET /summarize-doc/{job_id}     *)
(*   - app/signing.py  SigningService: initialize, _derive_public_key,     *)
(*                     sign_response                                       *)
(*   - app/test_signing.py  the verification procedure of a signed         *)
(*                     response                                            *)
(*   - app/agent.py    initialize_agent, the stored agent id,              *)
(*                     add_signing_key_to_agent                            *)
(*                                                                         *)
(* Python values are tagged tuples: Str(s), Num(n), None, Obj(x).  A       *)
(* Python dict with string keys is the sequence of its <<key, value>>      *)
(* pairs in insertion order.  A document (a str) is kept run-length        *)
(* encoded, see DocLen.                                                      *)
(***************************************************************************)
EXTENDS Integers, Sequences, FiniteSets, TLC

VARIABLES
    AI_PROVIDER,      \* main.py:42, fixed when the process starts
    DEBUG_SIGNING,    \* environment variable read by initialize
    ENVIRONMENT,      \* environment variable read by initialize
    coincurve,        \* TRUE iff the coincurve library can be imported
    uuid_repeats,     \* TRUE iff uuid.uuid4() may return a value it has
                      \*   returned before
    jobs,             \* main.py:61, job_id -> record
    uuids,            \* identifiers uuid.uuid4() has produced so far
    tasks,            \* pending background tasks: job_id ->
                      \*   [pc, job_id, document, stores]
    finished,         \* ended background tasks: job_id -> "returned" | "raised"
    response,         \* the HTTP response of the last request
    calls,            \* job_id -> number of calls of the backend made for it
    finalized,        \* job_id -> the statuses its task has written, in order
    private_key_hex,  \* SigningService.private_key_hex
    public_key_hex,   \* SigningService.public_key_hex
    rofl_client,      \* SigningService.rofl_client
    rofl_metadata,    \* metadata held by the ROFL key-management facility
    init_calls,       \* number of initialize() calls made
    init_raised,      \* TRUE iff the last initialize() call raised
    signed,           \* the last sign_response call: input, result, and
                      \*   the input mapping as the call left it
    agent_store,      \* the agent id kept across startups: the .agent_id
                      \*   file, or agent_id in the ROFL metadata
    agents_registered,\* number of agents registered so far
    agent_result,     \* what the last initialize_agent returned: sdk, agent
    agent_registry    \* the registered agents: agent id -> the signing key
                      \*   in its registered metadata

vars == << AI_PROVIDER, DEBUG_SIGNING, ENVIRONMENT, coincurve, uuid_repeats,
           jobs, uuids,
           tasks, finished, response, calls, finalized, private_key_hex,
           public_key_hex, rofl_client, rofl_metadata, init_calls, init_raised,
           signed, agent_store, agents_registered, agent_result,
           agent_registry >>

config_vars == << AI_PROVIDER, DEBUG_SIGNING, ENVIRONMENT, coincurve,
                 uuid_repeats >>

job_vars == << jobs, uuids, tasks, finished, response, calls, finalized >>

signing_vars == << private_key_hex, public_key_hex, rofl_client,
                   rofl_metadata, init_calls, init_raised, signed >>

agent_vars == << agent_store, agents_registered, agent_result,
                agent_registry >>

(***************************************************************************)
(* Bounds of the model.                                                    *)
(***************************************************************************)
MaxJobs == 2

MaxInitCalls == 2

MaxAgents == 3

(***************************************************************************)
(* Program constants.                                                      *)
(***************************************************************************)
MAX_DOCUMENT_LENGTH == 400000

MIN_DOCUMENT_LENGTH == 50

(***************************************************************************)
(* Python values.                                                          *)
(***************************************************************************)
None == << "none" >>

Str(s) == << "str", s >>

Num(n) == << "int", n >>

\* a value json.dumps cannot serialize (a set, bytes, an object)
Obj(x) == << "obj", x >>

\* Python truthiness of an optional str: `not x`
Falsy(x) == x = None \/ x = Str("")

(***************************************************************************)
(* Python dicts with string keys, as sequences of <<key, value>> pairs.    *)
(***************************************************************************)
DictKeys(d) == { d[i][1] : i \in DOMAIN d }

Has(d, k) == k \in DictKeys(d)

Get(d, k) == d[CHOOSE i \in DOMAIN d : d[i][1] = k][2]

\* d[k] = v: an existing key keeps its position, a new key goes last
DictSet(d, k, v) ==
    IF Has(d, k)
    THEN [i \in DOMAIN d |-> IF d[i][1] = k THEN << k, v >> ELSE d[i]]
    ELSE Append(d, << k, v >>)

\* {k: v for k, v in d.items() if k not in ks}
DictWithout(d, ks) == SelectSeq(d, LAMBDA kv : kv[1] \notin ks)

(***************************************************************************)
(* Documents.  A document is a sequence of segments [w, g, k]: k           *)
(* repetitions of w non-whitespace characters followed by g blanks.        *)
(***************************************************************************)
\* len(document)
RECURSIVE DocLen(_)
DocLen(doc) ==
    IF doc = << >> THEN 0
    ELSE Head(doc).k * (Head(doc).w + Head(doc).g) + DocLen(Tail(doc))

\* len(document.split()): the number of maximal runs of non-whitespace.
\* inWord: the text scanned so far ends inside a word.
RECURSIVE SplitCount(_, _)
SplitCount(doc, inWord) ==
    IF doc = << >> THEN 0
    ELSE LET s == Head(doc) IN
         IF s.k = 0 \/ (s.w = 0 /\ s.g = 0) THEN SplitCount(Tail(doc), inWord)
         ELSE IF s.w = 0 THEN SplitCount(Tail(doc), FALSE)
         ELSE IF s.g = 0
              THEN (IF inWord THEN 0 ELSE 1) + SplitCount(Tail(doc), TRUE)
              ELSE s.k - (IF inWord THEN 1 ELSE 0) + SplitCount(Tail(doc), FALSE)

Seg(w, g, k) == [w |-> w, g |-> g, k |-> k]

\* the documents submitted in the model
Documents ==
    { << Seg(50, 0, 1) >>,                      \* "A" * 50
      << Seg(49, 0, 1) >>,                      \* "A" * 49
      << Seg(4, 1, 80000) >>,                   \* "AAAA " * 80000
      << Seg(4, 1, 80000), Seg(1, 0, 1) >>,     \* "AAAA " * 80000 + "A"
      << >> }                                   \* ""

\* documents whose word counts lie on both sides of the multiples of 200, a
\* document with blanks before and between its words, and a document of
\* blanks only
StatDocuments ==
    { << Seg(50, 0, 1) >>,                              \* "A" * 50
      << Seg(4, 1, 199) >>,                             \* "AAAA " * 199
      << Seg(4, 1, 200) >>,                             \* "AAAA " * 200
      << Seg(4, 1, 399) >>,                             \* "AAAA " * 399
      << Seg(4, 1, 400) >>,                             \* "AAAA " * 400
      << Seg(0, 3, 1), Seg(30, 2, 1), Seg(30, 0, 1) >>, \* 3 blanks, 2 words
      << Seg(0, 60, 1) >> }                             \* " " * 60

(***************************************************************************)
(* The job service, app/main.py.                                           *)
(***************************************************************************)
Providers == { "ollama", "gaia" }

\* the values uuid.uuid4() can take in the model
UUIDs == 1 .. MaxJobs

\* str(uuid)
UuidStr(u) == "uuid-" \o ToString(u)

\* the job ids a client may ask for: every uuid, and one that is never issued
JobIdStrings == { UuidStr(u) : u \in UUIDs } \cup { "no-such-job" }

\* what the summarization backend can answer
Summaries == { "a summary" }

\* exceptions: a class and str(e).  Every class here derives from Exception.
ConnectionError(msg) == [cls |-> "ConnectionError", msg |-> msg]

KeyError(key) == [cls |-> "KeyError", msg |-> "'" \o key \o "'"]

IndexError(msg) == [cls |-> "IndexError", msg |-> msg]

NoException == [cls |-> "", msg |-> ""]

\* what the call of the backend can do: answer well, answer with a body
\* that lacks the summary text, or raise
Outcomes ==
    { [kind |-> "ok", text |-> s] : s \in Summaries }
        \cup { [kind |-> "malformed", text |-> ""] }
        \cup { [kind |-> "raise", text |-> "connection refused"] }

\* traceback.format_exc(), a text that depends on the exception only
Traceback(e) ==
    "Traceback (most recent call last): " \o e.cls \o ": " \o e.msg

NoResponse == [op |-> "none", arg |-> "", code |-> 0, body |-> << >>]

HTTPException(op, arg, status_code, detail) ==
    [op |-> op, arg |-> arg, code |-> status_code,
     body |-> << << "detail", Str(detail) >> >>]

\* f"{reading_time} minute{'s' if reading_time != 1 else ''}"
ReadingTimeText(reading_time) ==
    ToString(reading_time) \o " minute" \o (IF reading_time # 1 THEN "s" ELSE "")

\* the reading time without its lower limit: word_count // 200
Max_none(a, b) == b

\* max(a, b)
Max(a, b) == IF a >= b THEN a ELSE b

ProcessingRecord == << << "status", Str("processing") >> >>

CompletedRecord(summary, document) ==
    LET word_count == SplitCount(document, FALSE)
        reading_time == Max(1, word_count \div 200)
    IN  << << "status", Str("completed") >>,
           << "summary", Str(summary) >>,
           << "word_count", Num(word_count) >>,
           << "reading_time", Str(ReadingTimeText(reading_time)) >> >>

FailedRecord(e) ==
    << << "status", Str("failed") >>,
       << "error", Str(e.msg) >>,
       << "error_details", Str(e.msg \o "\n" \o Traceback(e)) >> >>

\* the exception raised by taking the summary text out of a malformed answer:
\* response["message"]["content"] or response.choices[0].message.content
ExtractError(provider) ==
    IF provider = "gaia" THEN IndexError("list index out of range")
    ELSE KeyError("message")

\* the try block of process_summary_with_ollama / process_summary_with_gaia:
\* the record it stores, or the exception that leaves it
TryBlock(provider, outcome, document) ==
    IF outcome.kind = "raise"
    THEN [raised |-> TRUE, exc |-> ConnectionError(outcome.text), record |-> << >>]
    ELSE IF outcome.kind = "malformed"
    THEN [raised |-> TRUE, exc |-> ExtractError(provider), record |-> << >>]
    ELSE [raised |-> FALSE, exc |-> NoException,
          record |-> CompletedRecord(outcome.text, document)]

\* the exception classes of the model that derive from Exception
IsException(e) ==
    e.cls \in { "ConnectionError", "KeyError", "IndexError", "ValueError",
                "TypeError", "ImportError" }

\* a handler that catches KeyError only
CaughtByTask_KeyErrorOnly(e) == e.cls = "KeyError"

\* `except Exception as e` of the background task
CaughtByTask(e) == IsException(e)

\* an except clause that stores nothing: `except Exception: pass`
ProcessSummary_pass(provider, outcome, document) ==
    LET t == TryBlock(provider, outcome, document)
    IN  IF ~t.raised THEN [record |-> t.record, raised |-> FALSE]
        ELSE [record |-> << >>, raised |-> FALSE]

\* process_summary run on the outcome of the backend call: the record the
\* task stores (<< >>: none) and whether an exception leaves the task
ProcessSummary(provider, outcome, document) ==
    LET t == TryBlock(provider, outcome, document)
    IN  IF ~t.raised THEN [record |-> t.record, raised |-> FALSE]
        ELSE IF CaughtByTask(t.exc)
        THEN [record |-> FailedRecord(t.exc), raised |-> FALSE]
        ELSE [record |-> << >>, raised |-> TRUE]

\* jobs = {job_id: record}: the table replaced, not updated
StoreJob_replace(j, job_id, record) == [k \in { job_id } |-> record]

\* a store under a new key that starts the table afresh
StoreJob_rebind(j, job_id, record) ==
    IF job_id \in DOMAIN j
    THEN [k \in DOMAIN j |-> IF k = job_id THEN record ELSE j[k]]
    ELSE [k \in { job_id } |-> record]

\* every record of the table set to the record
StoreJob_broadcast(j, job_id, record) ==
    [k \in DOMAIN j \cup { job_id } |-> record]

\* jobs[job_id] = record
StoreJob(j, job_id, record) ==
    [k \in DOMAIN j \cup { job_id } |-> IF k = job_id THEN record ELSE j[k]]

\* a task that stays queued when it has run
DropKey_keep(f, k) == f

\* dict without one key
DropKey(f, k) == [x \in DOMAIN f \ { k } |-> f[x]]

\* an identifier source that can repeat itself
uuid4_any(drawn) == UUIDs

\* str(uuid.uuid4()): the identifiers a call can return.  A version 4 uuid
\* has 122 random bits: a call returns an identifier no earlier call returned.
uuid4(drawn) == UUIDs \ drawn

\* main.py:209 and main.py:215
TooShort(doc_length) == doc_length < MIN_DOCUMENT_LENGTH

\* the upper limit left unchecked
TooLong_never(doc_length) == FALSE

TooLong(doc_length) == doc_length > MAX_DOCUMENT_LENGTH

\* whether a request carries a payment the x402 middleware accepts
PaymentDecisions == BOOLEAN

\* the payment middleware put in front of every route
PaymentGated_all(path) == TRUE

\* require_payment(path="/summarize-doc", ...), registered for every HTTP
\* request: TRUE iff a request to the path needs a payment
PaymentGated(path) == path = "/summarize-doc"

\* the path of the status route, /summarize-doc/{job_id}
StatusPath(job_id) == "/summarize-doc/" \o job_id

PaymentRequired(op, arg) ==
    [op |-> op, arg |-> arg, code |-> 402,
     body |-> << << "error", Str("X-PAYMENT header is required") >> >>]

\* jobs.get(job_id, {"status": "processing"}): an unknown job reported as
\* processing
StatusResponse_default(j, job_id) ==
    [op |-> "GET", arg |-> job_id, code |-> 200,
     body |-> IF job_id \in DOMAIN j THEN j[job_id] ELSE ProcessingRecord]

\* the handler of GET /summarize-doc/{job_id}: its response
StatusResponse(j, job_id) ==
    IF job_id \notin DOMAIN j
    THEN HTTPException("GET", job_id, 404, "Job not found")
    ELSE [op |-> "GET", arg |-> job_id, code |-> 200, body |-> j[job_id]]

\* POST /summarize-doc, refused by the payment middleware
summarize_doc_unpaid(document) ==
    /\ response' = PaymentRequired("POST", "")
    /\ UNCHANGED << jobs, uuids, tasks, finished, calls, finalized >>
    /\ UNCHANGED << config_vars, signing_vars, agent_vars >>

\* POST /summarize-doc with a document the handler refuses
summarize_doc_rejected(document) ==
    /\ TooShort(DocLen(document)) \/ TooLong(DocLen(document))
    /\ response' =
          IF TooShort(DocLen(document))
          THEN HTTPException("POST", "", 400,
                   "Document too short. Minimum length is "
                       \o ToString(MIN_DOCUMENT_LENGTH) \o " characters.")
          ELSE HTTPException("POST", "", 400,
                   "Document too long. Maximum length is "
                       \o ToString(MAX_DOCUMENT_LENGTH)
                       \o " characters (~100K tokens).")
    /\ UNCHANGED << jobs, uuids, tasks, finished, calls, finalized >>
    /\ UNCHANGED << config_vars, signing_vars, agent_vars >>

\* a task given the id of the first job, whatever job it is scheduled for
TaskJobId_first(job_id) == UuidStr(1)

\* background_tasks.add_task(process_summary, job_id, request.document):
\* the id the task is given, under which it stores what it writes
TaskJobId(job_id) == job_id

\* POST /summarize-doc with a document the handler accepts
summarize_doc_accepted(document) ==
    /\ ~TooShort(DocLen(document))
    /\ ~TooLong(DocLen(document))
    /\ \E u \in (IF uuid_repeats THEN UUIDs ELSE uuid4(uuids)) :
          LET job_id == UuidStr(u) IN
          /\ uuids' = uuids \cup { u }
          /\ jobs' = StoreJob(jobs, job_id, ProcessingRecord)
          /\ tasks' = StoreJob(tasks, job_id,
                               [pc |-> "scheduled",
                                job_id |-> TaskJobId(job_id),
                                document |-> document, stores |-> << >>])
          /\ response' =
                [op |-> "POST", arg |-> "", code |-> 200,
                 body |-> << << "job_id", Str(job_id) >>,
                             << "status", Str("processing") >>,
                             << "status_url", Str("/summarize-doc/" \o job_id) >>,
                             << "provider", Str(AI_PROVIDER) >> >>]
          /\ calls' = StoreJob(calls, job_id, 0)
          /\ finalized' = StoreJob(finalized, job_id, << >>)
    /\ UNCHANGED finished
    /\ UNCHANGED << config_vars, signing_vars, agent_vars >>

\* POST /summarize-doc behind the payment middleware
summarize_doc(document, paid) ==
    IF PaymentGated("/summarize-doc") /\ ~paid
    THEN summarize_doc_unpaid(document)
    ELSE \/ summarize_doc_rejected(document)
         \/ summarize_doc_accepted(document)

\* the background task starts: process_summary calls the backend
TaskStart(job_id) ==
    /\ job_id \in DOMAIN tasks
    /\ tasks[job_id].pc = "scheduled"
    /\ tasks' = [tasks EXCEPT ![job_id].pc = "calling"]
    /\ calls' = [calls EXCEPT ![job_id] = @ + 1]
    /\ UNCHANGED << jobs, uuids, finished, response, finalized >>
    /\ UNCHANGED << config_vars, signing_vars, agent_vars >>

\* a record written field by field: jobs[job_id]["status"] = ..., then the
\* next field, each a store of its own
RecordStores_fieldwise(record) == [i \in DOMAIN record |-> SubSeq(record, 1, i)]

\* jobs[job_id] = {...}: the values stored under the job's key to write a
\* record, in order.  The record is built first and stored whole, in one
\* item assignment.
RecordStores(record) == << record >>

\* the call of the backend ends and process_summary runs on: it makes its
\* next store into the job table, and ends when none is left
TaskFinish(job_id, outcome) ==
    /\ job_id \in DOMAIN tasks
    /\ tasks[job_id].pc \in { "calling", "storing" }
    /\ LET r == IF tasks[job_id].pc = "calling"
                THEN ProcessSummary(AI_PROVIDER, outcome, tasks[job_id].document)
                ELSE [record |-> << >>, raised |-> FALSE]
           stores == IF tasks[job_id].pc = "storing" THEN tasks[job_id].stores
                     ELSE IF r.record = << >> THEN << >>
                     ELSE RecordStores(r.record)
       IN
       /\ jobs' = IF stores = << >> THEN jobs
                  ELSE StoreJob(jobs, tasks[job_id].job_id, Head(stores))
       /\ finalized' =
             IF r.record = << >> THEN finalized
             ELSE [finalized EXCEPT
                      ![job_id] = Append(@, Get(r.record, "status")[2])]
       /\ IF Len(stores) <= 1
          THEN /\ finished' = StoreJob(finished, job_id,
                                       IF r.raised THEN "raised" ELSE "returned")
               /\ tasks' = DropKey(tasks, job_id)
          ELSE /\ finished' = finished
               /\ tasks' = [tasks EXCEPT ![job_id].pc = "storing",
                                         ![job_id].stores = Tail(stores)]
    /\ UNCHANGED << uuids, response, calls >>
    /\ UNCHANGED << config_vars, signing_vars, agent_vars >>

\* GET /summarize-doc/{job_id} behind the payment middleware
get_summary_status(job_id, paid) ==
    /\ response' = IF PaymentGated(StatusPath(job_id)) /\ ~paid
                   THEN PaymentRequired("GET", job_id)
                   ELSE StatusResponse(jobs, job_id)
    /\ UNCHANGED << jobs, uuids, tasks, finished, calls, finalized >>
    /\ UNCHANGED << config_vars, signing_vars, agent_vars >>

(***************************************************************************)
(* The signing service, app/signing.py.  Hex strings, byte strings, JSON   *)
(* texts, digests and signatures are strings.  SHA-256 and ECDSA are       *)
(* symbolic: a digest names the text it hashes, a signature names the key  *)
(* and the digest it signs.                                                *)
(***************************************************************************)
\* stand-ins for 64-digit hex strings that are valid SECP256K1 scalars
ValidKeys == { "11", "22" }

\* secrets.token_hex(32)
TokenHexKeys == ValidKeys

\* what generate_key of the key-management facility can return: a valid
\* key, a text that is not hex, the empty text
GeneratedKeys == { "11", "zz", "" }

ValueError(msg) == [cls |-> "ValueError", msg |-> msg]

TypeError(msg) == [cls |-> "TypeError", msg |-> msg]

ImportError(msg) == [cls |-> "ImportError", msg |-> msg]

Ok(v) == [raised |-> FALSE, exc |-> NoException, value |-> v]

Raise(e) == [raised |-> TRUE, exc |-> e, value |-> None]

\* bytes.fromhex(s) followed by coincurve.PrivateKey(...): the key object,
\* here the scalar itself
PrivateKey(private_key_hex_) ==
    IF private_key_hex_ \in ValidKeys THEN Ok(private_key_hex_)
    ELSE IF private_key_hex_ = ""
    THEN Raise(ValueError("The private key must be exactly 32 bytes long"))
    ELSE Raise(ValueError("non-hexadecimal number found in fromhex()"))

\* privkey.public_key.format(compressed=True).hex()
PublicKeyHex(scalar) == "02" \o scalar

\* SigningService._derive_public_key
_derive_public_key(cc, private_key_hex_) ==
    IF ~cc THEN Raise(ImportError("No module named 'coincurve'"))
    ELSE LET privkey == PrivateKey(private_key_hex_)
         IN  IF privkey.raised THEN privkey
             ELSE Ok(Str(PublicKeyHex(privkey.value)))

\* the keys of the payloads of the model, in the order Python sorts them
KeyOrder ==
    << "a", "b", "data", "error", "error_details", "public_key",
       "reading_time", "signature", "status", "summary", "word_count" >>

\* the items in insertion order, as json.dumps writes them without sort_keys
SortedItems_insertion(d) == d

\* sorted(d.items()) for sort_keys=True
SortedItems(d) ==
    LET ks == SelectSeq(KeyOrder, LAMBDA k : Has(d, k))
    IN  [i \in DOMAIN ks |-> << ks[i], Get(d, ks[i]) >>]

\* TRUE iff json.dumps accepts the value
RECURSIVE Serializable(_)
Serializable(v) ==
    IF v[1] = "obj" THEN FALSE
    ELSE IF v[1] = "dict"
    THEN \A i \in DOMAIN v[2] : Serializable(v[2][i][2])
    ELSE TRUE

Dict(d) == << "dict", d >>

\* json.dumps(v, sort_keys=True, separators=(",", ":")) of a serializable
\* value.  Texts are quoted; the texts of the model need no escapes.
RECURSIVE JsonValue(_)
RECURSIVE JsonItems(_)
JsonItems(items) ==
    IF items = << >> THEN ""
    ELSE "\"" \o Head(items)[1] \o "\":" \o JsonValue(Head(items)[2])
             \o (IF Tail(items) = << >> THEN "" ELSE ",")
             \o JsonItems(Tail(items))

JsonValue(v) ==
    IF v[1] = "str" THEN "\"" \o v[2] \o "\""
    ELSE IF v[1] = "int" THEN ToString(v[2])
    ELSE IF v[1] = "none" THEN "null"
    ELSE "{" \o JsonItems(SortedItems(v[2])) \o "}"

\* json.dumps(data, sort_keys=True, separators=(",", ":"))
json_dumps(data) ==
    IF Serializable(Dict(data)) THEN Ok(JsonValue(Dict(data)))
    ELSE Raise(TypeError("Object is not JSON serializable"))

\* hashlib.sha256(text.encode()).digest()
sha256(text) == "sha256(" \o text \o ")"

\* the ECDSA signature of a digest under a scalar
Signature(scalar, message_hash) ==
    "sig(" \o scalar \o "," \o message_hash \o ")"

\* sign_recoverable(message_hash) with the default hasher: the digest is
\* hashed a second time
sign_recoverable_rehash(scalar, message_hash) ==
    Signature(scalar, sha256(message_hash))

\* privkey.sign_recoverable(message_hash, hasher=None).hex()
sign_recoverable(scalar, message_hash) == Signature(scalar, message_hash)

\* PublicKey.from_signature_and_message(sig, hash, hasher=None)
\*     .format(compressed=True).hex(): the one key under which the
\* signature is a signature of the digest; for a signature of another
\* digest, a key that no scalar of the model has
from_signature_and_message(signature_hex, message_hash) ==
    IF \E k \in ValidKeys : signature_hex = Signature(k, message_hash)
    THEN PublicKeyHex(CHOOSE k \in ValidKeys :
                          signature_hex = Signature(k, message_hash))
    ELSE "03ff"

\* a strip that removes the signature and leaves the public key
SignatureFields_signatureOnly == { "signature" }

\* the fields left out of the text that is signed, signing.py:111-113
SignatureFields == { "signature", "public_key" }

\* signed_response = response_data: the writes go to the caller's mapping
dict_copy_alias == "response_data"

\* response_data.copy(): the mapping the writes of signing.py:129-130 go
\* to, a new one
dict_copy == "signed_response"

\* signing.py:128-130 on the two mappings of the call, the caller's
\* response_data and signed_response: both as they are when the call returns
WriteSignature(response_data, signature_hex, public_key_hex_) ==
    LET target == dict_copy
        objects == [response_data |-> response_data,
                    signed_response |-> response_data]
        signature_set ==
            [objects EXCEPT ![target] = DictSet(@, "signature",
                                                Str(signature_hex))]
        public_key_set ==
            [signature_set EXCEPT ![target] = DictSet(@, "public_key",
                                                      public_key_hex_)]
    IN  [response_data |-> public_key_set.response_data,
         signed_response |-> public_key_set[target]]

\* the try block of sign_response: the mappings of WriteSignature, or the
\* exception raised
SignTry(private_key_hex_, public_key_hex_, cc, crypto_fails, response_data) ==
    IF ~cc THEN Raise(ImportError("No module named 'coincurve'"))
    ELSE LET data_to_sign == DictWithout(response_data, SignatureFields)
             canonical_json == json_dumps(data_to_sign)
         IN  IF canonical_json.raised THEN canonical_json
             ELSE LET message_hash == sha256(canonical_json.value)
                      privkey == PrivateKey(private_key_hex_[2])
                  IN  IF privkey.raised THEN privkey
                      ELSE IF crypto_fails
                      THEN Raise(ValueError("failed to sign"))
                      ELSE LET signature_hex ==
                                   sign_recoverable(privkey.value, message_hash)
                           IN  Ok(WriteSignature(response_data, signature_hex,
                                                 public_key_hex_))

\* a handler that catches ImportError only
CaughtBySign_ImportErrorOnly(e) == e.cls = "ImportError"

\* `except Exception as e` of sign_response
CaughtBySign(e) == IsException(e)

\* a sign_response that refuses to work without a key
SignResponse_strict(private_key_hex_, public_key_hex_, cc, crypto_fails, response_data) ==
    IF Falsy(private_key_hex_)
    THEN Raise(ValueError("signing service not initialized"))
    ELSE LET t == SignTry(private_key_hex_, public_key_hex_, cc,
                          crypto_fails, response_data)
         IN  IF ~t.raised THEN Ok(t.value.signed_response)
             ELSE IF CaughtBySign(t.exc) THEN Ok(response_data)
             ELSE t

\* SigningService.sign_response: what it returns, and whether it raises
SignResponse(private_key_hex_, public_key_hex_, cc, crypto_fails, response_data) ==
    IF Falsy(private_key_hex_) THEN Ok(response_data)
    ELSE LET t == SignTry(private_key_hex_, public_key_hex_, cc,
                          crypto_fails, response_data)
         IN  IF ~t.raised THEN Ok(t.value.signed_response)
             ELSE IF CaughtBySign(t.exc) THEN Ok(response_data)
             ELSE t

\* the caller's mapping when sign_response has returned or raised
SignResponseInput(private_key_hex_, public_key_hex_, cc, crypto_fails, response_data) ==
    IF Falsy(private_key_hex_) THEN response_data
    ELSE LET t == SignTry(private_key_hex_, public_key_hex_, cc,
                          crypto_fails, response_data)
         IN  IF ~t.raised THEN t.value.response_data ELSE response_data

\* the verification of app/test_signing.py: TRUE iff the key recovered
\* from the signature is the key of the envelope
Verify(envelope) ==
    LET data_to_verify == DictWithout(envelope, SignatureFields)
        canonical_json == json_dumps(data_to_verify)
    IN  /\ ~canonical_json.raised
        /\ Has(envelope, "signature")
        /\ Has(envelope, "public_key")
        /\ Get(envelope, "signature")[1] = "str"
        /\ Get(envelope, "public_key")[1] = "str"
        /\ from_signature_and_message(Get(envelope, "signature")[2],
                                      sha256(canonical_json.value))
               = Get(envelope, "public_key")[2]

\* what the calls initialize makes outside the process can do
\*   token:    the text secrets.token_hex(32) returns
\*   rofl:     TRUE iff oasis_rofl_client can be imported and constructed
\*   generate: the text generate_key returns, or "raise"
\*   publish:  set_metadata: "ok"; "raise", nothing stored; "stored-raise",
\*             the metadata stored and the empty reply raising a decode error
InitInputs ==
    [token : TokenHexKeys,
     rofl : BOOLEAN,
     generate : { [raised |-> FALSE, key |-> k] : k \in GeneratedKeys }
                    \cup { [raised |-> TRUE, key |-> ""] },
     publish : { "ok", "raise", "stored-raise" }]

\* the inputs initialize reads under a setting of the environment: the
\* mock branch reads the token only, the production branch reads the
\* facility only, and the branch that disables signing reads nothing
InitInputsFor(debug_signing, environment) ==
    IF debug_signing
    THEN { in \in InitInputs :
               /\ in.rofl /\ in.publish = "ok"
               /\ in.generate = [raised |-> TRUE, key |-> ""] }
    ELSE IF environment # "production"
    THEN { in \in InitInputs :
               /\ in.rofl /\ in.publish = "ok"
               /\ in.generate = [raised |-> TRUE, key |-> ""]
               /\ in.token = "11" }
    ELSE { in \in InitInputs : in.token = "11" }

\* the fields of the signing service, and the metadata of the facility
SigningState(priv, pub, client, metadata, raised) ==
    [private_key_hex |-> priv, public_key_hex |-> pub, rofl_client |-> client,
     rofl_metadata |-> metadata, raised |-> raised]

\* the branch of initialize taken when DEBUG_SIGNING is true
InitializeMock(st, cc, in) ==
    LET pub == _derive_public_key(cc, in.token)
    IN  IF pub.raised
        THEN SigningState(Str(in.token), st.public_key_hex, st.rofl_client,
                          st.rofl_metadata, TRUE)
        ELSE SigningState(Str(in.token), pub.value, st.rofl_client,
                          st.rofl_metadata, FALSE)

\* the try block of initialize, taken in production: every exception in it
\* is caught by `except Exception` and logged, so the fields assigned
\* before it was raised keep their new values
InitializeRofl(st, cc, in) ==
    IF ~in.rofl THEN [st EXCEPT !.raised = FALSE]
    ELSE LET st1 == [st EXCEPT !.rofl_client = Str("RoflClient"),
                               !.raised = FALSE]
         IN  IF in.generate.raised THEN st1
             ELSE LET st2 == [st1 EXCEPT
                                  !.private_key_hex = Str(in.generate.key)]
                      pub == _derive_public_key(cc, in.generate.key)
                  IN  IF pub.raised THEN st2
                      ELSE LET st3 == [st2 EXCEPT !.public_key_hex = pub.value]
                           IN  IF in.publish = "raise" THEN st3
                               ELSE [st3 EXCEPT !.rofl_metadata =
                                        DictSet(st3.rofl_metadata,
                                                "signing_public_key",
                                                pub.value)]

\* an initialize that looks at the environment before DEBUG_SIGNING
Initialize_environmentFirst(st, debug_signing, environment, cc, in) ==
    IF environment # "production" THEN [st EXCEPT !.raised = FALSE]
    ELSE IF debug_signing THEN InitializeMock(st, cc, in)
    ELSE InitializeRofl(st, cc, in)

\* SigningService.initialize
Initialize(st, debug_signing, environment, cc, in) ==
    IF debug_signing THEN InitializeMock(st, cc, in)
    ELSE IF environment # "production" THEN [st EXCEPT !.raised = FALSE]
    ELSE InitializeRofl(st, cc, in)

\* await signing_service.initialize()
initialize(in) ==
    /\ init_calls < MaxInitCalls
    /\ LET st == Initialize(SigningState(private_key_hex, public_key_hex,
                                         rofl_client, rofl_metadata, FALSE),
                            DEBUG_SIGNING, ENVIRONMENT, coincurve, in)
       IN  /\ private_key_hex' = st.private_key_hex
           /\ public_key_hex' = st.public_key_hex
           /\ rofl_client' = st.rofl_client
           /\ rofl_metadata' = st.rofl_metadata
           /\ init_raised' = st.raised
    /\ init_calls' = init_calls + 1
    /\ UNCHANGED signed
    /\ UNCHANGED << config_vars, job_vars, agent_vars >>

\* the payloads handed to sign_response in the model
SignedStale ==
    << << "status", Str("processing") >>,
       << "signature", Str("sig(22,sha256({}))") >>,
       << "public_key", Str("0222") >> >>

Payloads ==
    { ProcessingRecord,
      CompletedRecord("a summary", << Seg(50, 0, 1) >>),
      << << "word_count", Num(1) >>, << "status", Str("completed") >>,
         << "summary", Str("x") >> >>,
      << << "status", Str("completed") >>, << "summary", Str("x") >>,
         << "word_count", Num(1) >> >>,
      SignedStale,
      << << "status", Str("failed") >>, << "data", Obj("set") >> >>,
      << << "data", Dict(<< << "b", Num(2) >>, << "a", None >> >>) >> >> }

\* signing_service.sign_response(response_data)
sign_response(response_data, crypto_fails) ==
    /\ signed' =
          [input |-> response_data,
           result |-> SignResponse(private_key_hex, public_key_hex, coincurve,
                                   crypto_fails, response_data),
           input_after |-> SignResponseInput(private_key_hex, public_key_hex,
                                             coincurve, crypto_fails,
                                             response_data)]
    /\ UNCHANGED << private_key_hex, public_key_hex, rofl_client,
                    rofl_metadata, init_calls, init_raised >>
    /\ UNCHANGED << config_vars, job_vars, agent_vars >>

(***************************************************************************)
(* Agent registration at startup, app/agent.py.  The Agent0 SDK and the    *)
(* chain are outside the process: what their calls do is an input.         *)
(***************************************************************************)
\* the id registration gives to the n-th agent registered
AgentId(n) == Str("agent-" \o ToString(n))

\* what initialize_agent is given and what its calls outside the process do
\*   configured: agent0_rpc_url and agent0_private_key are both given
\*   sdk:        TRUE iff SDK(...) is constructed
\*   read:       TRUE iff get_metadata answers (production)
\*   load:       TRUE iff loadAgent finds the agent
\*   register:   TRUE iff createAgent, the setters and registerIPFS succeed
\*   store:      the write of the id: "ok"; "raise", nothing stored;
\*               "stored-raise", the id stored and the empty reply raising
\*               a decode error (production)
AgentInputs ==
    [configured : BOOLEAN, sdk : BOOLEAN, read : BOOLEAN, load : BOOLEAN,
     register : BOOLEAN, store : { "ok", "raise", "stored-raise" }]

\* get_agent_id_from_rofl_metadata
get_agent_id_from_rofl_metadata(store, environment, in) ==
    IF environment # "production" THEN store
    ELSE IF in.read THEN store
    ELSE None

\* what store_agent_id_in_rofl_metadata leaves in the store, and whether it
\* raises: the write of the file is in no try block, the call of
\* set_metadata is, and a decode error of its reply counts as success
store_agent_id_in_rofl_metadata(store, environment, in, agent_id) ==
    IF environment # "production"
    THEN IF in.store = "ok" THEN [store |-> agent_id, raised |-> FALSE]
         ELSE [store |-> store, raised |-> TRUE]
    ELSE IF in.store = "raise" THEN [store |-> store, raised |-> FALSE]
         ELSE [store |-> agent_id, raised |-> FALSE]

AgentState(store, registered, sdk, agent) ==
    [store |-> store, registered |-> registered, sdk |-> sdk, agent |-> agent]

\* agent.py:150, `if initialized_agent.agentId and not existing_agent_id`
StoreWanted(agent_id, existing_agent_id) ==
    ~Falsy(agent_id) /\ Falsy(existing_agent_id)

\* initialize_agent: the store and the number of agents registered when
\* it returns, and the SDK and the agent it returns (None, None after a
\* failure or without configuration)
InitializeAgent(store, registered, environment, in) ==
    IF ~in.configured \/ ~in.sdk
    THEN AgentState(store, registered, FALSE, None)
    ELSE LET existing_agent_id ==
                 get_agent_id_from_rofl_metadata(store, environment, in)
             loaded == ~Falsy(existing_agent_id) /\ in.load
         IN  IF ~in.register
             THEN AgentState(store, registered, FALSE, None)
             ELSE LET agent_id == IF loaded THEN existing_agent_id
                                  ELSE AgentId(registered + 1)
                      registered_after == IF loaded THEN registered
                                          ELSE registered + 1
                  IN  IF ~StoreWanted(agent_id, existing_agent_id)
                      THEN AgentState(store, registered_after, TRUE, agent_id)
                      ELSE LET w == store_agent_id_in_rofl_metadata(
                                        store, environment, in, agent_id)
                           IN  IF w.raised
                               THEN AgentState(w.store, registered_after,
                                               FALSE, None)
                               ELSE AgentState(w.store, registered_after,
                                               TRUE, agent_id)

\* await initialize_agent(...) at a startup of the service
initialize_agent(in) ==
    /\ agents_registered < MaxAgents
    /\ LET st == InitializeAgent(agent_store, agents_registered,
                                 ENVIRONMENT, in)
       IN  /\ agent_store' = st.store
           /\ agents_registered' = st.registered
           /\ agent_result' = [sdk |-> st.sdk, agent |-> st.agent]
           /\ agent_registry' =
                 IF st.registered = agents_registered THEN agent_registry
                 ELSE StoreJob(agent_registry, AgentId(st.registered)[2], None)
    /\ UNCHANGED << config_vars, job_vars, signing_vars >>

\* the public keys handed to add_signing_key_to_agent
SigningPublicKeys == { None } \cup { Str(PublicKeyHex(k)) : k \in ValidKeys }

\* await add_signing_key_to_agent(agent, signing_public_key) with the agent
\* initialize_agent returned; registered: TRUE iff setMetadata and
\* registerIPFS succeed
add_signing_key_to_agent(signing_public_key, registered) ==
    /\ agent_registry' =
          IF agent_result.agent = None \/ Falsy(signing_public_key)
          THEN agent_registry
          ELSE IF ~registered THEN agent_registry
          ELSE StoreJob(agent_registry, agent_result.agent[2],
                        signing_public_key)
    /\ UNCHANGED << agent_store, agents_registered, agent_result >>
    /\ UNCHANGED << config_vars, job_vars, signing_vars >>

\* no agent id stored, no agent registered, initialize_agent not yet called
InitAgent ==
    /\ agent_store = None
    /\ agents_registered = 0
    /\ agent_result = [sdk |-> FALSE, agent |-> None]
    /\ agent_registry = << >>

\* the state of the job service when the process has started
InitJobs ==
    /\ jobs = << >>
    /\ uuids = { }
    /\ tasks = << >>
    /\ finished = << >>
    /\ response = NoResponse
    /\ calls = << >>
    /\ finalized = << >>

\* the signing service as constructed, SigningService.__init__
InitSigning ==
    /\ private_key_hex = None
    /\ public_key_hex = None
    /\ rofl_client = None
    /\ rofl_metadata = << >>
    /\ init_calls = 0
    /\ init_raised = FALSE
    /\ signed = [input |-> << >>, result |-> Ok(<< >>), input_after |-> << >>]

\* the service process: main.py, with the signing environment at its defaults
Init ==
    /\ AI_PROVIDER \in Providers
    /\ DEBUG_SIGNING = FALSE
    /\ ENVIRONMENT = "development"
    /\ coincurve = TRUE
    /\ uuid_repeats = FALSE
    /\ InitJobs
    /\ InitSigning
    /\ InitAgent

Post == \E document \in Documents, paid \in PaymentDecisions :
            summarize_doc(document, paid)

Start == \E job_id \in JobIdStrings : TaskStart(job_id)

Finish == \E job_id \in JobIdStrings, outcome \in Outcomes :
              TaskFinish(job_id, outcome)

Poll == \E job_id \in JobIdStrings, paid \in PaymentDecisions :
            get_summary_status(job_id, paid)

Next == Post \/ Start \/ Finish \/ Poll

Spec == Init /\ [][Next]_vars

\* the signing service on its own, as app/test_signing.py runs it, under
\* every setting of its environment
InitSigningService ==
    /\ AI_PROVIDER = "ollama"
    /\ DEBUG_SIGNING \in BOOLEAN
    /\ ENVIRONMENT \in { "development", "production" }
    /\ coincurve \in BOOLEAN
    /\ uuid_repeats = FALSE
    /\ InitJobs
    /\ InitSigning
    /\ InitAgent

Startup == \E in \in InitInputsFor(DEBUG_SIGNING, ENVIRONMENT) : initialize(in)

Sign == \E response_data \in Payloads, crypto_fails \in BOOLEAN :
            sign_response(response_data, crypto_fails)

NextSigning == Startup \/ Sign

SigningSpec == InitSigningService /\ [][NextSigning]_vars

\* the service process with the signing service started in it, under every
\* setting of the signing environment
InitService ==
    /\ AI_PROVIDER \in Providers
    /\ DEBUG_SIGNING \in BOOLEAN
    /\ ENVIRONMENT \in { "development", "production" }
    /\ coincurve \in BOOLEAN
    /\ uuid_repeats = FALSE
    /\ InitJobs
    /\ InitSigning
    /\ InitAgent

NextService == Post \/ Start \/ Finish \/ Poll \/ Startup

ServiceSpec == InitService /\ [][NextService]_vars

\* the service process when uuid.uuid4() is not taken to be free of
\* repetitions: a call can return an identifier an earlier call returned
InitCollision ==
    /\ AI_PROVIDER \in Providers
    /\ DEBUG_SIGNING = FALSE
    /\ ENVIRONMENT = "development"
    /\ coincurve = TRUE
    /\ uuid_repeats = TRUE
    /\ InitJobs
    /\ InitSigning
    /\ InitAgent

CollisionSpec == InitCollision /\ [][Next]_vars

\* the service process given paid submissions of the documents of
\* StatDocuments
PostStats == \E document \in StatDocuments : summarize_doc(document, TRUE)

NextStats == PostStats \/ Start \/ Finish

StatsSpec == Init /\ [][NextStats]_vars

\* startups of the service, one after another, each registering the agent
InitAgentService ==
    /\ AI_PROVIDER = "ollama"
    /\ DEBUG_SIGNING = FALSE
    /\ ENVIRONMENT \in { "development", "production" }
    /\ coincurve = TRUE
    /\ uuid_repeats = FALSE
    /\ InitJobs
    /\ InitSigning
    /\ InitAgent

AgentStartup == \E in \in AgentInputs : initialize_agent(in)

AddSigningKey ==
    \E signing_public_key \in SigningPublicKeys, registered \in BOOLEAN :
        add_signing_key_to_agent(signing_public_key, registered)

NextAgent == AgentStartup \/ AddSigningKey

AgentSpec == InitAgentService /\ [][NextAgent]_vars

\* the service process when a scheduled background task is eventually run
\* and a call of the summarization backend eventually returns or raises
FairSpec == Spec /\ WF_vars(Start) /\ WF_vars(Finish)

(***************************************************************************)
(* Properties.                                                             *)
(***************************************************************************)
Status(record) == Get(record, "status")[2]

Terminal(record) == Status(record) \in { "completed", "failed" }

InRange(document) == DocLen(document) >= 50 /\ DocLen(document) <= 400000

\* C1: a job record is created as processing, its status is always one of
\* processing, completed, failed, and once it is completed or failed the
\* record is never removed and never changes again.
C1_TerminalOnce ==
    [][/\ \A id \in DOMAIN jobs :
             /\ id \in DOMAIN jobs'
             /\ Status(jobs'[id]) \in { "processing", "completed", "failed" }
             /\ Terminal(jobs[id]) => jobs'[id] = jobs[id]
       /\ \A id \in DOMAIN jobs' \ DOMAIN jobs :
             jobs'[id] = ProcessingRecord]_vars

\* two jobs have ended, one completed and one failed
C1_Witness ==
    \E a, b \in DOMAIN jobs :
        /\ Status(jobs[a]) = "completed"
        /\ Status(jobs[b]) = "failed"
        /\ { a, b } \subseteq DOMAIN finished

\* C2: a paid submission of a document of 50 to 400000 characters answers
\* 200 with a job id that was no key of the job table before the call, and
\* right after it a status query for that id answers the processing record.
C2_FreshProcessing ==
    [][\A document \in Documents :
          (InRange(document) /\ summarize_doc(document, TRUE)) =>
              /\ response'.code = 200
              /\ Has(response'.body, "job_id")
              /\ LET job_id == Get(response'.body, "job_id")[2] IN
                 /\ job_id \notin DOMAIN jobs
                 /\ StatusResponse(jobs', job_id).code = 200
                 /\ StatusResponse(jobs', job_id).body = ProcessingRecord]_vars

\* a second submission has just been accepted while the first job is over
C2_Witness ==
    /\ response.op = "POST"
    /\ response.code = 200
    /\ jobs[Get(response.body, "job_id")[2]] = ProcessingRecord
    /\ Get(response.body, "job_id")[2] \in DOMAIN tasks
    /\ \E other \in DOMAIN jobs : Terminal(jobs[other])

\* C3: a paid submission of a document shorter than 50 or longer than
\* 400000 characters answers 400 and leaves the job table, the scheduled
\* tasks and the identifiers drawn as they were.
C3_RejectedNoJob ==
    [][\A document \in Documents :
          (~InRange(document) /\ summarize_doc(document, TRUE)) =>
              /\ response'.code = 400
              /\ jobs' = jobs
              /\ tasks' = tasks
              /\ finished' = finished
              /\ uuids' = uuids]_vars

\* a submission has just been refused while a job exists
C3_Witness ==
    /\ response.op = "POST"
    /\ response.code = 400
    /\ DOMAIN jobs # { }
    /\ DOMAIN tasks # { }

\* C4: every job in the table is eventually completed or failed, and a job
\* whose background task has ended is completed or failed.
C4_EventuallyTerminal ==
    /\ [](\A id \in DOMAIN finished : id \in DOMAIN jobs /\ Terminal(jobs[id]))
    /\ \A u \in UUIDs :
          (UuidStr(u) \in DOMAIN jobs)
              ~> (UuidStr(u) \in DOMAIN jobs /\ Terminal(jobs[UuidStr(u)]))

\* every job submitted has ended, and no task is left
C4_Witness ==
    /\ uuids = UUIDs
    /\ DOMAIN tasks = { }
    /\ \A id \in DOMAIN jobs : id \in DOMAIN finished /\ Terminal(jobs[id])

\* C5: when the backend call raises or its answer is malformed, the task
\* returns without raising, the job's record becomes a failed record with
\* an error and an error_details text, and no other record and no response
\* changes.
C5_FailureContained ==
    [][\A id \in JobIdStrings, outcome \in Outcomes :
          (outcome.kind # "ok" /\ TaskFinish(id, outcome)) =>
              /\ finished'[id] = "returned"
              /\ id \in DOMAIN jobs'
              /\ Status(jobs'[id]) = "failed"
              /\ Has(jobs'[id], "error")
              /\ Has(jobs'[id], "error_details")
              /\ Get(jobs'[id], "error")[1] = "str"
              /\ Get(jobs'[id], "error_details")[1] = "str"
              /\ \A other \in DOMAIN jobs \ { id } :
                    other \in DOMAIN jobs' /\ jobs'[other] = jobs[other]
              /\ response' = response]_vars

\* a job has failed while another is still in processing
C5_Witness ==
    \E a, b \in DOMAIN jobs :
        /\ a \in DOMAIN finished
        /\ finished[a] = "returned"
        /\ Status(jobs[a]) = "failed"
        /\ Has(jobs[a], "error_details")
        /\ Status(jobs[b]) = "processing"

\* C6: a status query answers 404 for an id that is not in the job table
\* and 200 with the stored record for an id that is, and leaves the table
\* as it was.
C6_StatusQuery ==
    [][\A id \in JobIdStrings, paid \in PaymentDecisions :
          get_summary_status(id, paid) =>
              /\ jobs' = jobs
              /\ IF id \in DOMAIN jobs
                 THEN response'.code = 200 /\ response'.body = jobs[id]
                 ELSE response'.code = 404]_vars

\* a query has just answered 404 while the table holds an ended job
C6_Witness ==
    /\ response.op = "GET"
    /\ response.code = 404
    /\ response.arg \notin DOMAIN jobs
    /\ \E id \in DOMAIN jobs : Terminal(jobs[id])

\* C7: when the signing service holds a key with which sign_response signs
\* the stored record, the answer of a status query for a known job is that
\* signed record: it carries signature and public_key.
C7_StatusSigned ==
    [][\A id \in JobIdStrings, paid \in PaymentDecisions :
          (/\ get_summary_status(id, paid)
           /\ id \in DOMAIN jobs
           /\ Has(SignResponse(private_key_hex, public_key_hex, coincurve,
                               FALSE, jobs[id]).value, "signature")) =>
              /\ Has(response'.body, "signature")
              /\ Has(response'.body, "public_key")
              /\ response'.body =
                    SignResponse(private_key_hex, public_key_hex, coincurve,
                                 FALSE, jobs[id]).value]_vars

\* C8: without a private key sign_response returns its input, with the
\* same keys, and does not raise.
C8_NoKeyPassthrough ==
    [][\A response_data \in Payloads, crypto_fails \in BOOLEAN :
          (Falsy(private_key_hex) /\ sign_response(response_data, crypto_fails)) =>
              /\ ~signed'.result.raised
              /\ signed'.result.value = response_data
              /\ DictKeys(signed'.result.value) = DictKeys(response_data)]_vars

\* initialize has run and left no key, and a completed record came back
\* from sign_response as it went in
C8_Witness ==
    /\ init_calls > 0
    /\ Falsy(private_key_hex)
    /\ signed.input = CompletedRecord("a summary", << Seg(50, 0, 1) >>)
    /\ signed.result.value = signed.input
    /\ ~signed.result.raised

\* TRUE iff a step of signing fails: the library is missing, the key does
\* not decode, the payload does not serialize, or the signing call fails
SigningStepFails(response_data, crypto_fails) ==
    \/ ~coincurve
    \/ private_key_hex[2] \notin ValidKeys
    \/ \E i \in DOMAIN response_data :
          /\ response_data[i][1] \notin SignatureFields
          /\ ~Serializable(response_data[i][2])
    \/ crypto_fails

\* C9: with a private key present, when a step of signing fails,
\* sign_response returns its input and does not raise.
C9_SigningFailureAbsorbed ==
    [][\A response_data \in Payloads, crypto_fails \in BOOLEAN :
          (/\ ~Falsy(private_key_hex)
           /\ SigningStepFails(response_data, crypto_fails)
           /\ sign_response(response_data, crypto_fails)) =>
              /\ ~signed'.result.raised
              /\ signed'.result.value = response_data]_vars

\* a valid key is held and a payload that does not serialize came back
\* unsigned
C9_Witness ==
    /\ ~Falsy(private_key_hex)
    /\ private_key_hex[2] \in ValidKeys
    /\ coincurve
    /\ Has(signed.input, "data")
    /\ ~Serializable(Get(signed.input, "data"))
    /\ signed.result.value = signed.input
    /\ ~signed.result.raised

\* the values a field of an envelope is changed to
TamperValues ==
    { Str("tampered"), Str("completed"), Str("processing"), Str("x"),
      Num(1), Num(2), None }

\* TRUE iff the last sign_response call returned a newly signed envelope
FreshlySigned ==
    /\ ~signed.result.raised
    /\ Has(signed.result.value, "signature")
    /\ signed.result.value # signed.input

\* C10: a newly signed envelope verifies, and it no longer verifies after
\* the value of any field other than signature and public_key is changed.
C10_RoundTrip ==
    FreshlySigned =>
        LET envelope == signed.result.value IN
        /\ Verify(envelope)
        /\ \A k \in DictKeys(envelope) \ SignatureFields, v \in TamperValues :
              v # Get(envelope, k) => ~Verify(DictSet(envelope, k, v))

\* a completed record has been signed and verifies
C10_Witness ==
    /\ FreshlySigned
    /\ signed.input = CompletedRecord("a summary", << Seg(50, 0, 1) >>)
    /\ Verify(signed.result.value)
    /\ Get(signed.result.value, "public_key") = public_key_hex

\* the mappings with the keys and values of d, in every order of the keys
\* at every nesting level
RECURSIVE Reorderings(_)
Reorderings(d) ==
    LET Inner(pair) ==
            IF pair[2][1] = "dict"
            THEN { << pair[1], Dict(e) >> : e \in Reorderings(pair[2][2]) }
            ELSE { pair }
        Orders == { [i \in DOMAIN d |-> d[f[i]]] :
                        f \in Permutations(DOMAIN d) }
    IN  UNION { { e \in [DOMAIN p -> UNION { Inner(p[i]) : i \in DOMAIN p }] :
                      \A i \in DOMAIN p : e[i] \in Inner(p[i]) } :
                p \in Orders }

\* C11: the canonical text of a payload, and so the digest and the
\* signature, is the same for every order of the payload's keys at every
\* nesting level.
C11_OrderIndependent ==
    \A q \in Reorderings(signed.input) :
        /\ json_dumps(q) = json_dumps(signed.input)
        /\ json_dumps(q).raised \/
              sha256(json_dumps(q).value) = sha256(json_dumps(signed.input).value)
        /\ LET a == SignResponse(private_key_hex, public_key_hex, coincurve,
                                 FALSE, signed.input)
               b == SignResponse(private_key_hex, public_key_hex, coincurve,
                                 FALSE, q)
           IN  Has(a.value, "signature") =>
                  /\ Has(b.value, "signature")
                  /\ Get(b.value, "signature") = Get(a.value, "signature")

\* a payload whose keys are not in sorted order has been signed over the
\* text with the keys sorted
C11_Witness ==
    /\ FreshlySigned
    /\ signed.input =
          << << "word_count", Num(1) >>, << "status", Str("completed") >>,
             << "summary", Str("x") >> >>
    /\ ~Falsy(private_key_hex)
    /\ private_key_hex[2] \in ValidKeys
    /\ Get(signed.result.value, "signature") =
          Str(Signature(private_key_hex[2],
                  sha256("{\"status\":\"completed\",\"summary\":\"x\",\"word_count\":1}")))

\* C12: a signature is computed over the payload without its signature and
\* public_key fields: it is the signature of the digest of that payload's
\* canonical text, the payload without the two fields gets the same
\* signature, and so does the signed envelope when it is signed again.
C12_SignedOverStripped ==
    [][\A response_data \in Payloads, crypto_fails \in BOOLEAN :
          (/\ sign_response(response_data, crypto_fails)
           /\ ~signed'.result.raised
           /\ Has(signed'.result.value, "signature")
           /\ signed'.result.value # response_data) =>
              LET stripped ==
                      SelectSeq(response_data,
                          LAMBDA pair : pair[1] \notin { "signature", "public_key" })
                  envelope == signed'.result.value
              IN  /\ Get(envelope, "signature") =
                        Str(Signature(private_key_hex[2],
                                      sha256(json_dumps(stripped).value)))
                  /\ Get(SignResponse(private_key_hex, public_key_hex,
                                      coincurve, FALSE, stripped).value,
                         "signature") = Get(envelope, "signature")
                  /\ Get(SignResponse(private_key_hex, public_key_hex,
                                      coincurve, FALSE, envelope).value,
                         "signature") = Get(envelope, "signature")]_vars

\* a payload that came with a signature and a public key of another key
\* has been signed over the text without them
C12_Witness ==
    /\ FreshlySigned
    /\ signed.input = SignedStale
    /\ ~Falsy(private_key_hex)
    /\ private_key_hex[2] \in ValidKeys
    /\ Get(signed.result.value, "signature") =
          Str(Signature(private_key_hex[2],
                        sha256("{\"status\":\"processing\"}")))
    /\ Get(signed.result.value, "signature") # Get(signed.input, "signature")

\* C13: sign_response leaves the mapping it is given as it was, and a
\* signed envelope has the keys of the input plus signature and public_key,
\* the input's value under every other key, and the public key held.
C13_InputUntouched ==
    [][\A response_data \in Payloads, crypto_fails \in BOOLEAN :
          sign_response(response_data, crypto_fails) =>
              /\ signed'.input_after = response_data
              /\ (/\ ~signed'.result.raised
                  /\ Has(signed'.result.value, "signature")
                  /\ signed'.result.value # response_data) =>
                     LET envelope == signed'.result.value IN
                     /\ DictKeys(envelope) =
                           DictKeys(response_data)
                               \cup { "signature", "public_key" }
                     /\ \A k \in DictKeys(response_data)
                                     \ { "signature", "public_key" } :
                           Get(envelope, k) = Get(response_data, k)
                     /\ Get(envelope, "public_key") = public_key_hex
                     /\ DictKeys(response_data)
                            \cap { "signature", "public_key" } = { } =>
                           envelope =
                              response_data \o
                                 << << "signature", Get(envelope, "signature") >>,
                                    << "public_key", public_key_hex >> >>]_vars

\* a completed record has been signed: the envelope has two more fields
\* and the caller's record is as it was
C13_Witness ==
    /\ FreshlySigned
    /\ signed.input = CompletedRecord("a summary", << Seg(50, 0, 1) >>)
    /\ signed.input_after = signed.input
    /\ ~Has(signed.input_after, "signature")
    /\ Len(signed.result.value) = Len(signed.input) + 2

\* TRUE iff a call the production branch of initialize makes outside the
\* process fails: the facility cannot be reached, generate_key raises, or
\* set_metadata raises
ProvisioningFails(in) ==
    \/ ~in.rofl
    \/ in.generate.raised
    \/ in.publish # "ok"

\* C14: in production, when contacting the facility, generating the key or
\* publishing the public key fails, initialize does not raise and
\* afterwards sign_response returns every payload as it was given.
C14_FailureDisablesSigning ==
    [][\A in \in InitInputs :
          (/\ ~DEBUG_SIGNING
           /\ ENVIRONMENT = "production"
           /\ ProvisioningFails(in)
           /\ initialize(in)) =>
              /\ ~init_raised'
              /\ \A response_data \in Payloads :
                    SignResponse(private_key_hex', public_key_hex', coincurve,
                                 FALSE, response_data) = Ok(response_data)]_vars

\* C15: once initialize has left a private key and a public key, no step
\* changes either of them: not a further call of initialize, not a call of
\* sign_response.
C15_KeyImmutable ==
    [][(~Falsy(private_key_hex) /\ ~Falsy(public_key_hex)) =>
          /\ private_key_hex' = private_key_hex
          /\ public_key_hex' = public_key_hex]_vars

\* the documents of the model with the number of words str.split() finds
\* in them
WordsOf ==
    { << << Seg(50, 0, 1) >>, 1 >>,
      << << Seg(4, 1, 199) >>, 199 >>,
      << << Seg(4, 1, 200) >>, 200 >>,
      << << Seg(4, 1, 399) >>, 399 >>,
      << << Seg(4, 1, 400) >>, 400 >>,
      << << Seg(0, 3, 1), Seg(30, 2, 1), Seg(30, 0, 1) >>, 2 >>,
      << << Seg(0, 60, 1) >>, 0 >>,
      << << Seg(4, 1, 80000) >>, 80000 >> }

\* C16: the record of a job that completes has as word_count the number of
\* whitespace-separated words of its document and as reading_time the
\* text for max(1, word_count div 200) minutes, a number that is at least
\* 1; for a document of 50 characters without whitespace these are 1 and
\* "1 minute".
C16_WordStats ==
    [][\A id \in JobIdStrings, outcome \in Outcomes :
          (outcome.kind = "ok" /\ TaskFinish(id, outcome)) =>
              /\ Status(jobs'[id]) = "completed"
              /\ \E e \in WordsOf :
                    LET minutes == IF e[2] \div 200 >= 1 THEN e[2] \div 200
                                   ELSE 1
                    IN  /\ e[1] = tasks[id].document
                        /\ Get(jobs'[id], "word_count") = Num(e[2])
                        /\ minutes >= 1
                        /\ Get(jobs'[id], "reading_time") =
                              Str(ToString(minutes) \o
                                  (IF minutes = 1 THEN " minute"
                                   ELSE " minutes"))
              /\ tasks[id].document = << Seg(50, 0, 1) >> =>
                    /\ Get(jobs'[id], "word_count") = Num(1)
                    /\ Get(jobs'[id], "reading_time") = Str("1 minute")]_vars

\* a job with a document of 50 characters without whitespace and a job
\* with a document of 400 words have completed
C16_Witness ==
    \E a, b \in DOMAIN jobs :
        /\ Status(jobs[a]) = "completed"
        /\ Get(jobs[a], "word_count") = Num(1)
        /\ Get(jobs[a], "reading_time") = Str("1 minute")
        /\ Status(jobs[b]) = "completed"
        /\ Get(jobs[b], "word_count") = Num(400)
        /\ Get(jobs[b], "reading_time") = Str("2 minutes")

\* C17: a submission without payment answers 402 and leaves the job
\* table, the scheduled tasks and the identifiers drawn as they were; a
\* step that adds a job or a task is a paid submission; a status query
\* without payment is answered by the status handler.
C17_PaymentGate ==
    [][/\ \A document \in Documents :
             summarize_doc(document, FALSE) =>
                 /\ response'.op = "POST"
                 /\ response'.code = 402
                 /\ jobs' = jobs
                 /\ tasks' = tasks
                 /\ finished' = finished
                 /\ uuids' = uuids
       /\ (DOMAIN jobs' # DOMAIN jobs \/ DOMAIN tasks' \ DOMAIN tasks # { }) =>
             /\ \E document \in Documents : summarize_doc(document, TRUE)
             /\ response'.op = "POST"
             /\ response'.code = 200
       /\ \A id \in JobIdStrings :
             get_summary_status(id, FALSE) =>
                 /\ response'.code \in { 200, 404 }
                 /\ response' = StatusResponse(jobs, id)]_vars

\* a submission without payment has just been refused while the table
\* holds the job of a paid one
C17_Witness ==
    /\ response = PaymentRequired("POST", "")
    /\ DOMAIN jobs # { }
    /\ DOMAIN jobs = { UuidStr(u) : u \in uuids }

\* C18: for every job the backend is called at most once and its task
\* writes at most one terminal record; a job has a pending task or an
\* ended one, never both; a pending task has written nothing, and an
\* ended task has called the backend once and written exactly one record,
\* completed or failed, which is the record of the job.
C18_OneCallOneFinalize ==
    \A id \in DOMAIN jobs :
        /\ calls[id] <= 1
        /\ Len(finalized[id]) <= 1
        /\ (id \in DOMAIN tasks) # (id \in DOMAIN finished)
        /\ id \in DOMAIN tasks =>
              /\ Len(finalized[id]) = 0
              /\ calls[id] = IF tasks[id].pc = "calling" THEN 1 ELSE 0
        /\ id \in DOMAIN finished =>
              /\ calls[id] = 1
              /\ Len(finalized[id]) = 1
              /\ finalized[id][1] \in { "completed", "failed" }
              /\ Status(jobs[id]) = finalized[id][1]

\* one job has been finalized as completed and another as failed, each
\* after one call of the backend
C18_Witness ==
    \E a, b \in DOMAIN finished :
        /\ finalized[a] = << "completed" >>
        /\ finalized[b] = << "failed" >>
        /\ calls[a] = 1
        /\ calls[b] = 1

\* TRUE iff a record is the processing record, a completed record with
\* all its fields and no other, or a failed record with all its fields and
\* no other
WholeRecord(record) ==
    \/ record = << << "status", Str("processing") >> >>
    \/ /\ Has(record, "status")
       /\ Get(record, "status") = Str("completed")
       /\ DictKeys(record) =
             { "status", "summary", "word_count", "reading_time" }
    \/ /\ Has(record, "status")
       /\ Get(record, "status") = Str("failed")
       /\ DictKeys(record) = { "status", "error", "error_details" }

\* C19: in every state of every interleaving of background tasks and
\* requests, each record of the job table, and so each record a status
\* query can read, is a whole record, and the body of every 200 answer to
\* a status query is a whole record.
C19_NoPartialRecord ==
    /\ \A id \in DOMAIN jobs : WholeRecord(jobs[id])
    /\ \A id \in JobIdStrings :
          StatusResponse(jobs, id).code = 200 =>
             WholeRecord(StatusResponse(jobs, id).body)
    /\ (response.op = "GET" /\ response.code = 200) =>
          WholeRecord(response.body)

\* a status query has answered with the completed record of one job while
\* the task of another job is in its call of the backend
C19_Witness ==
    /\ response.op = "GET"
    /\ response.code = 200
    /\ Get(response.body, "status") = Str("completed")
    /\ DictKeys(response.body) =
          { "status", "summary", "word_count", "reading_time" }
    /\ \E other \in DOMAIN tasks :
          /\ tasks[other].pc = "calling"
          /\ jobs[other] = ProcessingRecord

\* C20: a step that creates or changes a record of the job table either
\* writes the processing record under a new id, and is then an accepted
\* submission that answers with that id and schedules its task in the
\* same step, or writes a completed or failed record, and is then the end
\* of the task scheduled for that id, whose record was the processing
\* record; no record is removed, and a status query leaves the table as
\* it was.
C20_WriteOwnership ==
    [][/\ \A id \in DOMAIN jobs' :
             (id \notin DOMAIN jobs \/ jobs'[id] # jobs[id]) =>
                 IF jobs'[id] = ProcessingRecord
                 THEN /\ id \notin DOMAIN jobs
                      /\ \E document \in Documents :
                            summarize_doc(document, TRUE)
                      /\ response'.op = "POST"
                      /\ response'.code = 200
                      /\ Get(response'.body, "job_id") = Str(id)
                      /\ id \notin DOMAIN tasks
                      /\ id \in DOMAIN tasks'
                      /\ tasks'[id].pc = "scheduled"
                 ELSE /\ Terminal(jobs'[id])
                      /\ id \in DOMAIN jobs
                      /\ jobs[id] = ProcessingRecord
                      /\ id \in DOMAIN tasks
                      /\ tasks[id].pc = "calling"
                      /\ id \notin DOMAIN tasks'
                      /\ \E outcome \in Outcomes : TaskFinish(id, outcome)
                      /\ response' = response
       /\ DOMAIN jobs \subseteq DOMAIN jobs'
       /\ \A id \in JobIdStrings, paid \in PaymentDecisions :
             get_summary_status(id, paid) => jobs' = jobs]_vars

\* the task of the second job has written its record while the record of
\* the first job, already written by its own task, is as it was, and a
\* status query has just been answered
C20_Witness ==
    /\ DOMAIN finished = { UuidStr(1), UuidStr(2) }
    /\ Status(jobs[UuidStr(1)]) = "failed"
    /\ Status(jobs[UuidStr(2)]) = "completed"
    /\ response.op = "GET"
    /\ response.code = 200

\* C21: the end of a job's task and an accepted submission leave the
\* record and the pending task of every other job as they were, and the
\* status the task writes is completed when its own call of the backend
\* answered well and failed otherwise, whatever the other jobs are.
C21_JobsIndependent ==
    [][/\ \A id \in JobIdStrings, outcome \in Outcomes :
             TaskFinish(id, outcome) =>
                 /\ \A other \in DOMAIN jobs \ { id } :
                       other \in DOMAIN jobs' /\ jobs'[other] = jobs[other]
                 /\ \A other \in DOMAIN tasks \ { id } :
                       other \in DOMAIN tasks' /\ tasks'[other] = tasks[other]
                 /\ Status(jobs'[id]) =
                       IF outcome.kind = "ok" THEN "completed" ELSE "failed"
       /\ \A document \in Documents :
             summarize_doc(document, TRUE) =>
                 /\ \A other \in DOMAIN jobs :
                       other \in DOMAIN jobs' /\ jobs'[other] = jobs[other]
                 /\ \A other \in DOMAIN tasks :
                       other \in DOMAIN tasks' /\ tasks'[other] = tasks[other]]_vars

\* the job submitted second has completed while the job submitted first
\* is still in its call of the backend
C21_Witness ==
    \E a, b \in DOMAIN jobs :
        /\ a # b
        /\ a \in DOMAIN finished
        /\ Status(jobs[a]) = "completed"
        /\ b \in DOMAIN tasks
        /\ tasks[b].pc = "calling"
        /\ jobs[b] = ProcessingRecord
        /\ response.op = "POST"
        /\ response.code = 200
        /\ Get(response.body, "job_id") = Str(a)

\* C22: a submission never creates a job under an identifier that is
\* already a key of the job table: every record of the table is left as it
\* was, and no submission answers 200 with an identifier that was a key.
C22_NoOverwrite ==
    [][\A id \in DOMAIN jobs :
          (\E document \in Documents : summarize_doc(document, TRUE)) =>
              /\ id \in DOMAIN jobs'
              /\ jobs'[id] = jobs[id]
              /\ ~(/\ response'.code = 200
                   /\ Get(response'.body, "job_id") = Str(id))]_vars

\* C23: what a call of initialize does is decided by DEBUG_SIGNING and
\* ENVIRONMENT.  With DEBUG_SIGNING on, in any environment, the private
\* key is a token generated in the process and the facility is not
\* touched.  With it off outside production, nothing changes and a first
\* call leaves no key.  With it off in production, the key is the one the
\* facility generated, and the public key left is the one published
\* unless publishing raised with nothing stored.  The facility's client
\* and its metadata change in production with DEBUG_SIGNING off only.
C23_ModeSelection ==
    [][\A in \in InitInputs :
          initialize(in) =>
              /\ IF DEBUG_SIGNING
                 THEN /\ private_key_hex' = Str(in.token)
                      /\ in.token \in TokenHexKeys
                      /\ coincurve => public_key_hex' = Str("02" \o in.token)
                 ELSE IF ENVIRONMENT # "production"
                 THEN /\ private_key_hex' = private_key_hex
                      /\ public_key_hex' = public_key_hex
                      /\ init_calls = 0 =>
                            private_key_hex' = None /\ public_key_hex' = None
                      /\ ~init_raised'
                 ELSE /\ in.rofl => rofl_client' # None
                      /\ (in.rofl /\ ~in.generate.raised) =>
                            private_key_hex' = Str(in.generate.key)
                      /\ (in.rofl /\ ~in.generate.raised /\ coincurve
                             /\ in.generate.key \in ValidKeys
                             /\ in.publish # "raise") =>
                            /\ public_key_hex' = Str("02" \o in.generate.key)
                            /\ Has(rofl_metadata', "signing_public_key")
                            /\ Get(rofl_metadata', "signing_public_key")
                                  = public_key_hex'
                      /\ ~init_raised'
              /\ (rofl_client' # rofl_client \/ rofl_metadata' # rofl_metadata)
                    => (~DEBUG_SIGNING /\ ENVIRONMENT = "production")]_vars

\* DEBUG_SIGNING is on in production: initialize has left a key generated
\* in the process and has not touched the facility
C23_Witness ==
    /\ DEBUG_SIGNING
    /\ ENVIRONMENT = "production"
    /\ init_calls = 1
    /\ ~Falsy(private_key_hex)
    /\ private_key_hex[2] \in TokenHexKeys
    /\ public_key_hex = Str("02" \o private_key_hex[2])
    /\ rofl_client = None
    /\ rofl_metadata = << >>

\* C24: in every state of the signing service the private key is present
\* exactly when the public key is, a public key that is present is the one
\* derived from the private key, and an envelope that sign_response has
\* just signed carries a public key that is not empty and is the key
\* recovered from its signature.
C24_KeyConsistent ==
    /\ Falsy(private_key_hex) <=> Falsy(public_key_hex)
    /\ ~Falsy(public_key_hex) =>
          _derive_public_key(TRUE, private_key_hex[2]) = Ok(public_key_hex)
    /\ FreshlySigned =>
          /\ Has(signed.result.value, "public_key")
          /\ ~Falsy(Get(signed.result.value, "public_key"))
          /\ Verify(signed.result.value)

\* C25: whenever initialize_agent returns an agent, the id in the store
\* afterwards is the id of that agent.
C25_AgentIdPersisted ==
    [][\A in \in AgentInputs :
          (initialize_agent(in) /\ agent_result'.agent # None) =>
              agent_store' = agent_result'.agent]_vars

\* C26: no step removes a key of the job table: an identifier for which a
\* status query can answer a record before a step is one for which it
\* answers a record after the step, and a status query for it made in the
\* step answers 200.
C26_StoreOnlyGrows ==
    [][\A id \in JobIdStrings :
          StatusResponse(jobs, id).code = 200 =>
              /\ id \in DOMAIN jobs'
              /\ StatusResponse(jobs', id).code = 200
              /\ \A paid \in PaymentDecisions :
                    get_summary_status(id, paid) =>
                        response'.code = 200]_vars

\* a status query answered the processing record of a job; the job has
\* ended since, and a query for it still answers a record
C26_Witness ==
    /\ response.op = "GET"
    /\ response.code = 200
    /\ response.body = ProcessingRecord
    /\ response.arg \in DOMAIN jobs
    /\ Terminal(jobs[response.arg])
    /\ StatusResponse(jobs, response.arg).code = 200
    /\ DOMAIN finished = { response.arg }

====
